---------------------------- MODULE Spec2Model ----------------------------
(***************************************************************************)
(* A model of attestation/src/report.rs: the SGX enclave-report and quote  *)
(* decoders, the quote-status mapping and AttestationReport::from_cert.    *)
(*                                                                         *)
(* Three specifications share the module's variables:                      *)
(*   SpecCursor  the `take` closure of the two decoders, called with       *)
(*               arbitrary sizes over short slices;                        *)
(*   SpecParse   SgxEnclaveReport::parse_from and SgxQuote::parse_from     *)
(*               applied to byte buffers of every length up to             *)
(*               MaxInputLen;                                              *)
(*   Spec        one call of AttestationReport::from_cert, one action per  *)
(*               step of the function, while the system clock advances.    *)
(***************************************************************************)
EXTENDS Integers, Sequences, FiniteSets, TLC

VARIABLES
    bytes,      \* the slice a decoder (or the cursor) works on
    pos,        \* SpecCursor: the closure's captured `pos`
    taken,      \* SpecCursor: the last take call, [n, from, ret]
    parsed,     \* SpecParse: the last decoder call, [fn, res]
    cert,       \* Spec: what the `cert` argument of from_cert holds
    ias_report_ca_cert, \* Spec: the `ias_report_ca_cert` argument
    clock,      \* Spec: SystemTime::now(), in ticks since the Unix epoch
    call        \* Spec: the locals and the position of the from_cert call

vars == <<bytes, pos, taken, parsed, cert, ias_report_ca_cert, clock, call>>

(***************************************************************************)
(* Result<T> and the errors the file produces.                             *)
(***************************************************************************)
Ok(v) == [ok |-> TRUE, val |-> v]
Err(e) == [ok |-> FALSE, err |-> e]

\* bail!("Quote parsing error.") / ensure!(.., "Quote parsing error.")
ParseError == "Quote parsing error."
\* Error::new(AttestationError::ReportError) / bail!(AttestationError::ReportError)
ReportError == "AttestationError::ReportError"

Idle == [fn |-> "none"]

(***************************************************************************)
(* The byte cursor: the `take` closure of both parse_from functions.       *)
(* `pos` is 0-based as in the code; sequences are 1-based.                 *)
(***************************************************************************)
\* take without the n > 0 test: a faulty variant, which C10 must tell apart.
take_m_zero(b, p, n) ==
    IF n >= 0 /\ Len(b) >= p + n
    THEN [ok |-> TRUE, ret |-> SubSeq(b, p + 1, p + n), pos |-> p + n]
    ELSE [ok |-> FALSE, err |-> ParseError, pos |-> p]

take(b, p, n) ==
    IF n > 0 /\ Len(b) >= p + n
    THEN [ok |-> TRUE, ret |-> SubSeq(b, p + 1, p + n), pos |-> p + n]
    ELSE [ok |-> FALSE, err |-> ParseError, pos |-> p]

\* A run of `take(n)?` calls, one per element of sizes, stopped by the first
\* failure: the fields taken so far and the position reached.
RECURSIVE TakeFields(_, _, _, _)
TakeFields(b, p, sizes, acc) ==
    IF sizes = <<>> THEN [ok |-> TRUE, parts |-> acc, pos |-> p]
    ELSE LET t == take(b, p, Head(sizes))
         IN  IF ~t.ok THEN [ok |-> FALSE, err |-> t.err, pos |-> t.pos]
             ELSE TakeFields(b, t.pos, Tail(sizes), Append(acc, t.ret))

\* The decoders without their final length test: a faulty variant for C2.
fully_consumed_m_skip(b, p) == TRUE

\* ensure!(pos == bytes.len(), "Quote parsing error.")
fully_consumed(b, p) == p = Len(b)

\* <[u8; N]>::try_from(take(N)?)? cannot fail: take(N) returns N bytes or fails
\* itself, so the conversions are left out of the model.

\* u16::from_le_bytes
u16_from_le_bytes(s) == s[1] + 256 * s[2]

\* u32::from_le_bytes. A u32 does not fit the checker's integers, so it is
\* kept as its two 16-bit halves: the value is hi * 2^16 + lo.
u32_from_le_bytes(s) ==
    [lo |-> s[1] + 256 * s[2], hi |-> s[3] + 256 * s[4]]

(***************************************************************************)
(* SgxEnclaveReport::parse_from                                            *)
(***************************************************************************)
\* A layout with two reserved ranges of the wrong size (same total): a faulty
\* variant for C9.
EnclaveReportFields_m_short ==
    <<16, 4, 24, 16, 32, 32, 32, 96, 2, 2, 64, 64>>

\* The sizes of the reads in the order of the code: cpu_svn, misc_select,
\* reserved, attributes, mr_enclave, reserved, mr_signer, reserved,
\* isv_prod_id, isv_svn, reserved, report_data.
EnclaveReportFields ==
    <<16, 4, 28, 16, 32, 32, 32, 96, 2, 2, 60, 64>>

SgxEnclaveReport_parse_from(b) ==
    LET t == TakeFields(b, 0, EnclaveReportFields, <<>>)
    IN  IF ~t.ok THEN Err(t.err)
        ELSE IF ~fully_consumed(b, t.pos) THEN Err(ParseError)
        ELSE Ok([cpu_svn     |-> t.parts[1],
                 misc_select |-> u32_from_le_bytes(t.parts[2]),
                 attributes  |-> t.parts[4],
                 mr_enclave  |-> t.parts[5],
                 mr_signer   |-> t.parts[7],
                 isv_prod_id |-> u16_from_le_bytes(t.parts[9]),
                 isv_svn     |-> u16_from_le_bytes(t.parts[10]),
                 report_data |-> t.parts[12]])

(***************************************************************************)
(* SgxQuote::parse_from                                                    *)
(***************************************************************************)
\* A signature-type match that also takes 2: a faulty variant for C3.
SgxEpidQuoteSigType_m_wide(v) ==
    CASE v = 0 -> Ok("Unlinkable")
      [] v = 1 -> Ok("Linkable")
      [] v = 2 -> Ok("Linkable")
      [] OTHER -> Err(ParseError)

\* match .. { 0 => Unlinkable, 1 => Linkable, _ => bail!(..) }
SgxEpidQuoteSigType(v) ==
    CASE v = 0 -> Ok("Unlinkable")
      [] v = 1 -> Ok("Linkable")
      [] OTHER -> Err(ParseError)

\* match .. { 2 => P256_256, 3 => P384_384, _ => bail!(..) }
SgxEcdsaQuoteAkType(v) ==
    CASE v = 2 -> Ok("P256_256")
      [] v = 3 -> Ok("P384_384")
      [] OTHER -> Err(ParseError)

\* The `let version = match u16::from_le_bytes(take(2)?) { .. }` block: the
\* version is read and matched first, the inner u16 is read inside the arm.
parse_version(b) ==
    LET t1 == take(b, 0, 2)
    IN  IF ~t1.ok THEN [ok |-> FALSE, err |-> t1.err, pos |-> t1.pos]
        ELSE LET v == u16_from_le_bytes(t1.ret)
             IN  IF v \notin {1, 2, 3}
                 THEN [ok |-> FALSE, err |-> ParseError, pos |-> t1.pos]
                 ELSE LET t2 == take(b, t1.pos, 2)
                      IN  IF ~t2.ok
                          THEN [ok |-> FALSE, err |-> t2.err, pos |-> t2.pos]
                          ELSE LET x == u16_from_le_bytes(t2.ret)
                                   k == IF v = 3 THEN SgxEcdsaQuoteAkType(x)
                                        ELSE SgxEpidQuoteSigType(x)
                               IN  IF ~k.ok
                                   THEN [ok |-> FALSE, err |-> k.err, pos |-> t2.pos]
                                   ELSE [ok |-> TRUE, pos |-> t2.pos,
                                         version |->
                                           [tag |-> CASE v = 1 -> "V1"
                                                      [] v = 2 -> "V2"
                                                      [] v = 3 -> "V3",
                                            ty  |-> k.val]]

\* Uuid::from_slice
Uuid_from_slice(s) == IF Len(s) = 16 THEN Ok(s) ELSE Err("uuid::Error")

\* The reads after the version: gid, isv_svn_qe, isv_svn_pce, qe_vendor_id,
\* user_data, isv_enclave_report.
QuoteFields == <<4, 2, 2, 16, 20, 384>>

SgxQuote_parse_from(b) ==
    LET h == parse_version(b)
    IN  IF ~h.ok THEN Err(h.err)
        ELSE LET t == TakeFields(b, h.pos, QuoteFields, <<>>)
             IN  IF ~t.ok THEN Err(t.err)
                 ELSE LET u == Uuid_from_slice(t.parts[4])
                          r == SgxEnclaveReport_parse_from(t.parts[6])
                      IN  IF ~u.ok THEN Err(u.err)
                          ELSE IF ~r.ok THEN Err(r.err)
                          ELSE IF ~fully_consumed(b, t.pos) THEN Err(ParseError)
                          ELSE Ok([version      |-> h.version,
                                   gid          |-> u32_from_le_bytes(t.parts[1]),
                                   isv_svn_qe   |-> u16_from_le_bytes(t.parts[2]),
                                   isv_svn_pce  |-> u16_from_le_bytes(t.parts[3]),
                                   qe_vendor_id |-> u.val,
                                   user_data    |-> t.parts[5],
                                   isv_enclave_report |-> r.val])


(***************************************************************************)
(* SgxQuoteStatus: impl From<&str>                                         *)
(***************************************************************************)
\* A mapping with two arms swapped and OK as the catch-all: a faulty variant
\* for C4.
SgxQuoteStatus_from_m_swap(status) ==
    CASE status = "OK" -> "OK"
      [] status = "GROUP_OUT_OF_DATE" -> "ConfigurationNeeded"
      [] status = "CONFIGURATION_NEEDED" -> "GroupOutOfDate"
      [] OTHER -> "OK"

SgxQuoteStatus_from(status) ==
    CASE status = "OK" -> "OK"
      [] status = "GROUP_OUT_OF_DATE" -> "GroupOutOfDate"
      [] status = "CONFIGURATION_NEEDED" -> "ConfigurationNeeded"
      [] OTHER -> "UnknownBadStatus"

(***************************************************************************)
(* Library calls of from_cert, modelled by what they compute.              *)
(***************************************************************************)
\* Ticks of the system clock per second: SystemTime and chrono's NaiveDateTime
\* are finer than the whole seconds webpki::Time and num_seconds() keep.
TicksPerSec == 2

\* base64::decode over the standard alphabet. A string is the sequence of its
\* symbols: 0..63 the alphabet, B64Pad the '=' sign, anything larger a
\* character outside the alphabet.
B64Pad == 64

b64_strip(s) ==
    LET n == Len(s)
        k == IF n >= 2 /\ s[n] = B64Pad /\ s[n - 1] = B64Pad THEN 2
             ELSE IF n >= 1 /\ s[n] = B64Pad THEN 1 ELSE 0
    IN  SubSeq(s, 1, n - k)

base64_decode(s) ==
    LET d == b64_strip(s)
        m == Len(d)
        nb == (m * 6) \div 8
        byte(j) ==      \* j is 0-based
            LET q == ((8 * j) \div 6) + 1
                r == (8 * j) % 6
            IN  CASE r = 0 -> d[q] * 4 + (d[q + 1] \div 16)
                  [] r = 2 -> (d[q] % 16) * 16 + (d[q + 1] \div 4)
                  [] r = 4 -> (d[q] % 4) * 64 + d[q + 1]
    IN  IF \E i \in 1..m : d[i] >= B64Pad THEN Err("base64::DecodeError")
        ELSE IF m # Len(s) /\ Len(s) % 4 # 0 THEN Err("base64::DecodeError")
        ELSE IF m % 4 = 1 THEN Err("base64::DecodeError")
        ELSE IF m % 4 = 2 /\ d[m] % 16 # 0 THEN Err("base64::DecodeError")
        ELSE IF m % 4 = 3 /\ d[m] % 4 # 0 THEN Err("base64::DecodeError")
        ELSE Ok([j \in 1..nb |-> byte(j - 1)])

\* webpki::Time::try_from(SystemTime): the whole seconds since the Unix epoch;
\* fails for an instant before the epoch.
Time_try_from(t) ==
    IF t < 0 THEN Err("Cannot convert time.") ELSE Ok(t \div TicksPerSec)

\* EndEntityCert::verify_is_valid_tls_server_cert: the certificate chains to a
\* trust anchor and `time` lies within its validity.
verify_is_valid_tls_server_cert(crt, trust_anchors, time) ==
    IF crt.issuer \notin trust_anchors THEN Err("webpki::Error::UnknownIssuer")
    ELSE IF time < crt.not_before THEN Err("webpki::Error::CertNotValidYet")
    ELSE IF time > crt.not_after THEN Err("webpki::Error::CertExpired")
    ELSE Ok(TRUE)

\* DateTime::parse_from_str(time + "+0000", "%Y-%m-%dT%H:%M:%S%.f%z"): the
\* local date and time the string spells, and the offset of the appended zone.
DateTime_parse_from_str(time) ==
    IF ~time.well_formed THEN Err("chrono::ParseError")
    ELSE Ok([naive_local |-> time.naive, offset |-> 0])

\* DateTime::naive_utc
naive_utc(dt) == dt.naive_local - dt.offset * TicksPerSec

\* Duration::num_seconds: the whole seconds of a duration, cut towards zero.
num_seconds(d) ==
    IF d >= 0 THEN d \div TicksPerSec ELSE -((-d) \div TicksPerSec)

\* u64::try_from(i64)
u64_try_from(i) == IF i < 0 THEN Err("TryFromIntError") ELSE Ok(i)

(***************************************************************************)
(* AttestationReport::from_cert, one operator per step. A step takes the   *)
(* call's record and returns it after the step.                            *)
(***************************************************************************)
Unset == [unset |-> TRUE]

NewCall ==
    [pc |-> "extract", trace |-> <<>>, trust_anchors |-> {},
     system_time |-> Unset, time |-> Unset, now |-> Unset,
     quote_freshness |-> Unset, sgx_quote_status |-> Unset,
     sgx_quote_body |-> Unset, result |-> Unset]

\* `?` and bail!: the call returns the error.
Fail(c, step, e) ==
    [c EXCEPT !.pc = "done", !.trace = Append(@, step), !.result = Err(e)]

\* expect / an index out of bounds: the call panics.
Panic(c, step, msg) ==
    [c EXCEPT !.pc = "done", !.trace = Append(@, step),
              !.result = [ok |-> FALSE, panic |-> msg]]

Pass(c, step, next) == [c EXCEPT !.pc = next, !.trace = Append(@, step)]

\* x509, tbs_cert, pub_k, sgx_ra_cert_ext, payload, report
extract_extension(c, crt) ==
    IF ~crt.x509_ok THEN Fail(c, "ExtractExtension", "yasna::ASN1Error")
    ELSE IF ~crt.payload_ok THEN Fail(c, "ExtractExtension", "serde_json::Error")
    ELSE Pass(c, "ExtractExtension", "signing_cert")

\* webpki::EndEntityCert::from(&report.signing_cert)?
load_signing_cert(c, crt) ==
    IF ~crt.signing_cert_ok THEN Fail(c, "LoadSigningCert", "webpki::Error::BadDER")
    ELSE Pass(c, "LoadSigningCert", "trust_anchors")

\* root_store.add(..).expect("Failed to add CA"); trust_anchors; chain
add_trust_anchor(c, ca) ==
    IF ~ca.der_ok THEN Panic(c, "AddTrustAnchor", "Failed to add CA")
    ELSE [Pass(c, "AddTrustAnchor", "time") EXCEPT !.trust_anchors = {ca.subject}]

\* let time = webpki::Time::try_from(SystemTime::now()).map_err(..)?
read_time(c, system_time) ==
    LET t == Time_try_from(system_time)
        d == [c EXCEPT !.system_time = system_time]
    IN  IF ~t.ok THEN Fail(d, "ReadTime", t.err)
        ELSE [Pass(d, "ReadTime", "chain") EXCEPT !.time = t.val]

\* signing_cert.verify_is_valid_tls_server_cert(..)?
verify_cert_chain(c, crt) ==
    LET v == verify_is_valid_tls_server_cert(crt, c.trust_anchors, c.time)
    IN  IF ~v.ok THEN Fail(c, "VerifyCertChain", v.err)
        ELSE Pass(c, "VerifyCertChain", "signature")

\* A signature step that drops the result of the check: a faulty variant for
\* C8.
verify_signature_m_ignore(c, crt) == Pass(c, "VerifySignature", "report")

\* signing_cert.verify_signature(&webpki::RSA_PKCS1_2048_8192_SHA256, ..)?
verify_signature(c, crt) ==
    IF ~crt.signature_ok
    THEN Fail(c, "VerifySignature", "webpki::Error::InvalidSignatureForPublicKey")
    ELSE Pass(c, "VerifySignature", "report")

\* let attn_report: Value = serde_json::from_slice(&report.report)?
parse_report(c, crt) ==
    IF ~crt.report_json_ok THEN Fail(c, "ParseReport", "serde_json::Error")
    ELSE Pass(c, "ParseReport", "freshness")

\* let quote_freshness = { .. }: SystemTime::now() is read once the timestamp
\* has been parsed.
freshness(c, crt, system_time) ==
    LET time == crt.timestamp
    IN  IF time.kind # "str" THEN Fail(c, "Freshness", ReportError)
        ELSE LET date_time == DateTime_parse_from_str(time)
             IN  IF ~date_time.ok THEN Fail(c, "Freshness", date_time.err)
                 ELSE LET ts == naive_utc(date_time.val)
                          now == system_time
                          q == u64_try_from(num_seconds(now - ts))
                          d == [c EXCEPT !.now = now]
                      IN  IF ~q.ok THEN Fail(d, "Freshness", q.err)
                          ELSE [Pass(d, "Freshness", "status")
                                    EXCEPT !.quote_freshness = q.val]

\* A status step that rejects every status but OK: a faulty variant for C5.
quote_status_m_reject(c, crt) ==
    IF crt.isvEnclaveQuoteStatus.kind # "str" THEN Fail(c, "QuoteStatus", ReportError)
    ELSE IF crt.isvEnclaveQuoteStatus.s # "OK" THEN Fail(c, "QuoteStatus", ReportError)
    ELSE [Pass(c, "QuoteStatus", "body") EXCEPT !.sgx_quote_status = "OK"]

\* let sgx_quote_status = { .. }
quote_status(c, crt) ==
    LET status_string == crt.isvEnclaveQuoteStatus
    IN  IF status_string.kind # "str" THEN Fail(c, "QuoteStatus", ReportError)
        ELSE [Pass(c, "QuoteStatus", "body")
                  EXCEPT !.sgx_quote_status = SgxQuoteStatus_from(status_string.s)]

\* let sgx_quote_body = { .. }
quote_body(c, crt) ==
    LET quote_encoded == crt.isvEnclaveQuoteBody
    IN  IF quote_encoded.kind # "str" THEN Fail(c, "QuoteBody", ReportError)
        ELSE LET quote_raw == base64_decode(quote_encoded.s)
             IN  IF ~quote_raw.ok THEN Fail(c, "QuoteBody", quote_raw.err)
                 ELSE LET q == SgxQuote_parse_from(quote_raw.val)
                      IN  IF ~q.ok THEN Fail(c, "QuoteBody", q.err)
                          ELSE [Pass(c, "QuoteBody", "binding")
                                    EXCEPT !.sgx_quote_body = q.val]

\* raw_pub_k[0] == 4, &raw_pub_k[1..] against report_data, and the Ok(Self {..})
pub_key_binding(c, crt) ==
    LET raw_pub_k == crt.pub_k
    IN  IF raw_pub_k = <<>>
        THEN Panic(c, "PubKeyBinding", "index out of bounds")
        ELSE LET is_uncompressed == raw_pub_k[1] = 4
                 pub_k == Tail(raw_pub_k)
             IN  IF ~is_uncompressed
                    \/ pub_k # c.sgx_quote_body.isv_enclave_report.report_data
                 THEN Fail(c, "PubKeyBinding", ReportError)
                 ELSE [Pass(c, "PubKeyBinding", "done") EXCEPT
                          !.result = Ok([freshness |-> [secs |-> c.quote_freshness],
                                         sgx_quote_status |-> c.sgx_quote_status,
                                         sgx_quote_body |-> c.sgx_quote_body])]

\* The step a call at c.pc takes; t299 and t327 are what SystemTime::now()
\* returns at its two calls.
from_cert_step(c, crt, ca, t299, t327) ==
    CASE c.pc = "extract"       -> extract_extension(c, crt)
      [] c.pc = "signing_cert"  -> load_signing_cert(c, crt)
      [] c.pc = "trust_anchors" -> add_trust_anchor(c, ca)
      [] c.pc = "time"          -> read_time(c, t299)
      [] c.pc = "chain"         -> verify_cert_chain(c, crt)
      [] c.pc = "signature"     -> verify_signature(c, crt)
      [] c.pc = "report"        -> parse_report(c, crt)
      [] c.pc = "freshness"     -> freshness(c, crt, t327)
      [] c.pc = "status"        -> quote_status(c, crt)
      [] c.pc = "body"          -> quote_body(c, crt)
      [] c.pc = "binding"       -> pub_key_binding(c, crt)

\* The whole call, from c on.
RECURSIVE from_cert_from(_, _, _, _, _)
from_cert_from(c, crt, ca, t299, t327) ==
    IF c.pc = "done" THEN c
    ELSE from_cert_from(from_cert_step(c, crt, ca, t299, t327), crt, ca, t299, t327)

from_cert(crt, ca, t299, t327) == from_cert_from(NewCall, crt, ca, t299, t327)

(***************************************************************************)
(* Byte buffers the decoders are applied to.                               *)
(***************************************************************************)
\* Longest slice of SpecCursor and largest size asked of take there.
MaxSliceLen == 6
MaxTake == 4
\* Longest buffer handed to the decoders in SpecParse.
MaxInputLen == 434

\* n bytes, the i-th being a * i (mod 256).
Fill(a, n) == [i \in 1..n |-> (a * i) % 256]
Fills == {0, 1, 7, 13, 255}

\* v as n little-endian bytes (the encoder's side of from_le_bytes).
to_le_bytes(v, n) == [i \in 1..n |-> (v \div (256 ^ (i - 1))) % 256]

\* s with its first four bytes (those it has) replaced by the quote header
\* (version, signature type / attestation key type).
WithHeader(v, t, s) ==
    LET h == to_le_bytes(v, 2) \o to_le_bytes(t, 2)
    IN  [i \in 1..Len(s) |-> IF i <= 4 THEN h[i] ELSE s[i]]

HeaderVersions == {0, 1, 2, 3, 4, 256, 257}
HeaderTypes == {0, 1, 2, 3, 4, 256}

ParseInputs ==
    {Fill(a, n) : a \in Fills, n \in 0..MaxInputLen}
    \cup {WithHeader(2, 1, Fill(a, n)) : a \in Fills, n \in 0..MaxInputLen}
    \cup {WithHeader(3, 2, Fill(a, n)) : a \in Fills, n \in 0..MaxInputLen}
    \cup UNION {{WithHeader(v, t, Fill(a, n)) : a \in Fills, n \in {431, 432, 433}}
                 : <<v, t>> \in HeaderVersions \X HeaderTypes}

\* Values of the variables a specification does not use.
NoCert == [der |-> "unused"]
NoCall == [pc |-> "unused"]

(***************************************************************************)
(* SpecCursor: take called with any sizes, in any order.                   *)
(***************************************************************************)
InitCursor ==
    /\ bytes \in {Fill(1, n) : n \in 0..MaxSliceLen}
    /\ pos = 0
    /\ taken = Idle
    /\ parsed = Idle
    /\ cert = NoCert /\ ias_report_ca_cert = NoCert
    /\ clock = 0 /\ call = NoCall

Take(n) ==
    LET t == take(bytes, pos, n)
    IN  /\ pos' = t.pos
        /\ taken' = [fn |-> "take", n |-> n, from |-> pos, res |-> t]
        /\ UNCHANGED <<bytes, parsed, cert, ias_report_ca_cert, clock, call>>

NextCursor == \E n \in 0..MaxTake : Take(n)

SpecCursor == InitCursor /\ [][NextCursor]_vars

(***************************************************************************)
(* SpecParse: the two decoders applied to a buffer.                        *)
(***************************************************************************)
InitParse ==
    /\ bytes \in ParseInputs
    /\ pos = 0
    /\ taken = Idle
    /\ parsed = Idle
    /\ cert = NoCert /\ ias_report_ca_cert = NoCert
    /\ clock = 0 /\ call = NoCall

ParseEnclaveReport ==
    /\ parsed' = [fn |-> "SgxEnclaveReport", res |-> SgxEnclaveReport_parse_from(bytes)]
    /\ UNCHANGED <<bytes, pos, taken, cert, ias_report_ca_cert, clock, call>>

ParseQuote ==
    /\ parsed' = [fn |-> "SgxQuote", res |-> SgxQuote_parse_from(bytes)]
    /\ UNCHANGED <<bytes, pos, taken, cert, ias_report_ca_cert, clock, call>>

NextParse == ParseEnclaveReport \/ ParseQuote

SpecParse == InitParse /\ [][NextParse]_vars

(***************************************************************************)
(* Claims about the cursor and the decoders.                               *)
(***************************************************************************)

\* C10: take(n) at position p over a slice of length L returns the bytes
\* [p, p+n) and moves the position to p + n when n > 0 and p + n <= L, and
\* otherwise fails with the parse error and leaves the position where it
\* was; so the position stays within 0..L and never decreases.
C10_TakeContract ==
    taken.fn = "take" =>
        LET n == taken.n
            p == taken.from
            L == Len(bytes)
        IN  /\ IF n > 0 /\ p + n <= L
               THEN /\ taken.res.ok
                    /\ taken.res.ret = [i \in 1..n |-> bytes[p + i]]
                    /\ pos = p + n
               ELSE /\ ~taken.res.ok
                    /\ taken.res.err = ParseError
                    /\ pos = p
            /\ 0 <= pos /\ pos <= L
            /\ pos >= p

\* C10 witness: after bytes were consumed, a take(0) failed and left the
\* position where it was.
C10_Witness ==
    /\ taken.fn = "take" /\ taken.n = 0 /\ taken.from > 0
    /\ ~taken.res.ok /\ pos = taken.from

\* C2: a buffer whose length is not 384 is rejected by
\* SgxEnclaveReport::parse_from, and one whose length is not 432 by
\* SgxQuote::parse_from, with the parse error.
C2_ExactLength ==
    /\ (parsed.fn = "SgxEnclaveReport" /\ Len(bytes) # 384)
           => parsed.res = Err(ParseError)
    /\ (parsed.fn = "SgxQuote" /\ Len(bytes) # 432)
           => parsed.res = Err(ParseError)

\* C2 witness: a quote with a valid header that is one byte long was
\* rejected.
C2_Witness ==
    /\ parsed.fn = "SgxQuote" /\ Len(bytes) = 433
    /\ SubSeq(bytes, 1, 4) = <<2, 0, 1, 0>>
    /\ parsed.res = Err(ParseError)

\* The version a (version, type) header stands for, if any.
C3_Expected(v, t) ==
    CASE <<v, t>> = <<1, 0>> -> [tag |-> "V1", ty |-> "Unlinkable"]
      [] <<v, t>> = <<1, 1>> -> [tag |-> "V1", ty |-> "Linkable"]
      [] <<v, t>> = <<2, 0>> -> [tag |-> "V2", ty |-> "Unlinkable"]
      [] <<v, t>> = <<2, 1>> -> [tag |-> "V2", ty |-> "Linkable"]
      [] <<v, t>> = <<3, 2>> -> [tag |-> "V3", ty |-> "P256_256"]
      [] <<v, t>> = <<3, 3>> -> [tag |-> "V3", ty |-> "P384_384"]
      [] OTHER -> [tag |-> "none"]

\* C3: a 432-byte quote is accepted exactly when its (version, type) header,
\* two little-endian u16, is one of (1,0) (1,1) (2,0) (2,1) (3,2) (3,3), and
\* the decoded version is then the corresponding variant.
C3_VersionDispatch ==
    (parsed.fn = "SgxQuote" /\ Len(bytes) = 432) =>
        LET v == bytes[1] + 256 * bytes[2]
            t == bytes[3] + 256 * bytes[4]
        IN  /\ parsed.res.ok <=> C3_Expected(v, t).tag # "none"
            /\ parsed.res.ok => parsed.res.val.version = C3_Expected(v, t)

\* C3 witness: a 432-byte quote with header (3, 3) was decoded as V3(P384).
C3_Witness ==
    /\ parsed.fn = "SgxQuote" /\ Len(bytes) = 432
    /\ parsed.res.ok
    /\ parsed.res.val.version = [tag |-> "V3", ty |-> "P384_384"]

\* C9: every 384-byte buffer B is accepted by SgxEnclaveReport::parse_from,
\* the fields are the bytes of B at the documented offsets, and writing the
\* fields back at those offsets between B's reserved bytes gives B.
C9_FieldOffsets ==
    (parsed.fn = "SgxEnclaveReport" /\ Len(bytes) = 384) =>
        /\ parsed.res.ok
        /\ LET r == parsed.res.val
               B == bytes
               u16(i) == B[i + 1] + 256 * B[i + 2]
           IN  /\ r.cpu_svn = SubSeq(B, 1, 16)
               /\ r.misc_select.lo = u16(16) /\ r.misc_select.hi = u16(18)
               /\ r.attributes = SubSeq(B, 49, 64)
               /\ r.mr_enclave = SubSeq(B, 65, 96)
               /\ r.mr_signer = SubSeq(B, 129, 160)
               /\ r.isv_prod_id = u16(256)
               /\ r.isv_svn = u16(258)
               /\ r.report_data = SubSeq(B, 321, 384)
               /\ r.cpu_svn \o to_le_bytes(r.misc_select.lo, 2)
                    \o to_le_bytes(r.misc_select.hi, 2) \o SubSeq(B, 21, 48)
                    \o r.attributes \o r.mr_enclave \o SubSeq(B, 97, 128)
                    \o r.mr_signer \o SubSeq(B, 161, 256)
                    \o to_le_bytes(r.isv_prod_id, 2) \o to_le_bytes(r.isv_svn, 2)
                    \o SubSeq(B, 261, 320) \o r.report_data = B

\* C9 witness: a 384-byte buffer with non-zero reserved bytes was decoded.
C9_Witness ==
    /\ parsed.fn = "SgxEnclaveReport" /\ Len(bytes) = 384
    /\ parsed.res.ok
    /\ bytes[21] # 0 /\ bytes[97] # 0 /\ bytes[161] # 0 /\ bytes[261] # 0


(***************************************************************************)
(* Spec: one call of from_cert.                                            *)
(***************************************************************************)
\* The last tick of the system clock.
MaxClock == 4

\* base64 of a byte sequence, padded (the producer's side of base64_decode).
base64_encode(b) ==
    LET n == Len(b)
        at(i) == IF i <= n THEN b[i] ELSE 0
        ns == (8 * n + 5) \div 6
        sym(k) ==       \* k is 0-based
            LET q == ((6 * k) \div 8) + 1
                r == (6 * k) % 8
            IN  CASE r = 0 -> at(q) \div 4
                  [] r = 6 -> (at(q) % 4) * 16 + (at(q + 1) \div 16)
                  [] r = 4 -> (at(q) % 16) * 4 + (at(q + 1) \div 64)
                  [] r = 2 -> at(q) % 64
    IN  [k \in 1..(4 * ((ns + 3) \div 4)) |-> IF k <= ns THEN sym(k - 1) ELSE B64Pad]

Str(s) == [kind |-> "str", s |-> s]
Null == [kind |-> "null"]
Timestamp(t) == [kind |-> "str", well_formed |-> TRUE, naive |-> t]
BadTimestamp == [kind |-> "str", well_formed |-> FALSE]

\* A quote: V2, linkable, the bytes after the header 1, 2, 3, ...
GoodQuote == WithHeader(2, 1, Fill(1, 432))
\* The same with the last, or the first, byte of report_data changed.
WithByte(s, i, v) == [s EXCEPT ![i] = v]
ReportData(q) == SubSeq(q, 369, 432)

Uncompressed(rd) == <<4>> \o rd

\* A certificate every step accepts: its key is the uncompressed point the
\* quote's report_data holds, its IAS report is signed by a certificate the
\* IAS root issued, valid from second 0 to second 9.
GoodCert ==
    [x509_ok |-> TRUE,
     pub_k |-> Uncompressed(ReportData(GoodQuote)),
     payload_ok |-> TRUE,
     signing_cert_ok |-> TRUE,
     issuer |-> "IAS root",
     not_before |-> 0,
     not_after |-> 9,
     signature_ok |-> TRUE,
     report_json_ok |-> TRUE,
     timestamp |-> Timestamp(TicksPerSec),
     isvEnclaveQuoteStatus |-> Str("OK"),
     isvEnclaveQuoteBody |-> Str(base64_encode(GoodQuote))]

\* What one component of a certificate may hold instead.
Alternatives ==
    {<<"x509_ok", FALSE>>, <<"payload_ok", FALSE>>, <<"signing_cert_ok", FALSE>>,
     <<"signature_ok", FALSE>>, <<"report_json_ok", FALSE>>,
     <<"not_after", 0>>, <<"not_before", 1>>}
    \cup {<<"timestamp", t>> :
            t \in {Null, BadTimestamp, Timestamp(0), Timestamp(TicksPerSec + 1)}}
    \cup {<<"isvEnclaveQuoteStatus", x>> :
            x \in {Null, Str("GROUP_OUT_OF_DATE"), Str("CONFIGURATION_NEEDED"),
                   Str("ok"), Str(""), Str("SIGNATURE_INVALID")}}
    \cup {<<"isvEnclaveQuoteBody", x>> :
            x \in {Null,
                   Str(WithByte(base64_encode(GoodQuote), 7, B64Pad + 1)),
                   Str(base64_encode(SubSeq(GoodQuote, 1, 431))),
                   Str(base64_encode(GoodQuote \o <<0>>)),
                   Str(base64_encode(WithHeader(4, 1, GoodQuote))),
                   Str(base64_encode(WithHeader(3, 2, GoodQuote))),
                   Str(base64_encode(WithByte(GoodQuote, 432, 0))),
                   Str(base64_encode(WithByte(GoodQuote, 369, 0)))}}
    \cup {<<"pub_k", k>> :
            k \in {<<>>, <<4>>,
                   <<2>> \o ReportData(GoodQuote),
                   <<3>> \o ReportData(GoodQuote),
                   <<0>> \o ReportData(GoodQuote),
                   Uncompressed(ReportData(WithByte(GoodQuote, 432, 0))),
                   Uncompressed(ReportData(WithByte(GoodQuote, 400, 0))),
                   Uncompressed(SubSeq(ReportData(GoodQuote), 1, 63)),
                   Uncompressed(ReportData(GoodQuote) \o <<0>>)}}

\* No alternative, one, or two for different components.
DeviationSets ==
    {{}} \cup {d \in {{a, b} : a, b \in Alternatives} :
                 \A x, y \in d : x[1] = y[1] => x = y}

Deviate(c, d) ==
    [f \in DOMAIN c |-> IF \E a \in d : a[1] = f
                        THEN (CHOOSE a \in d : a[1] = f)[2]
                        ELSE c[f]]

Certs == {Deviate(GoodCert, d) : d \in DeviationSets}

\* The pinned root: the IAS root, another authority, or bytes that are no
\* certificate.
RootCerts ==
    {[der_ok |-> TRUE, subject |-> "IAS root"],
     [der_ok |-> TRUE, subject |-> "another root"],
     [der_ok |-> FALSE, subject |-> "none"]}

Init ==
    /\ cert \in Certs
    /\ ias_report_ca_cert \in RootCerts
    /\ clock = -1
    /\ call = NewCall
    /\ bytes = <<>> /\ pos = 0 /\ taken = Idle /\ parsed = Idle

\* The system clock advances. The call observes it only at its two calls of
\* SystemTime::now(), so the model lets it advance only when one of them is
\* the next step: any time that passes before the call or between the two
\* readings shows there, and time that passes later is seen by no step.
Tick ==
    /\ call.pc \in {"time", "freshness"}
    /\ clock < MaxClock
    /\ clock' = clock + 1
    /\ UNCHANGED <<call, cert, ias_report_ca_cert, bytes, pos, taken, parsed>>

Rest == <<clock, cert, ias_report_ca_cert, bytes, pos, taken, parsed>>

ExtractExtension ==
    /\ call.pc = "extract"
    /\ call' = extract_extension(call, cert)
    /\ UNCHANGED Rest

LoadSigningCert ==
    /\ call.pc = "signing_cert"
    /\ call' = load_signing_cert(call, cert)
    /\ UNCHANGED Rest

AddTrustAnchor ==
    /\ call.pc = "trust_anchors"
    /\ call' = add_trust_anchor(call, ias_report_ca_cert)
    /\ UNCHANGED Rest

ReadTime ==
    /\ call.pc = "time"
    /\ call' = read_time(call, clock)
    /\ UNCHANGED Rest

VerifyCertChain ==
    /\ call.pc = "chain"
    /\ call' = verify_cert_chain(call, cert)
    /\ UNCHANGED Rest

VerifySignature ==
    /\ call.pc = "signature"
    /\ call' = verify_signature(call, cert)
    /\ UNCHANGED Rest

ParseReport ==
    /\ call.pc = "report"
    /\ call' = parse_report(call, cert)
    /\ UNCHANGED Rest

Freshness ==
    /\ call.pc = "freshness"
    /\ call' = freshness(call, cert, clock)
    /\ UNCHANGED Rest

QuoteStatus ==
    /\ call.pc = "status"
    /\ call' = quote_status(call, cert)
    /\ UNCHANGED Rest

QuoteBody ==
    /\ call.pc = "body"
    /\ call' = quote_body(call, cert)
    /\ UNCHANGED Rest

PubKeyBinding ==
    /\ call.pc = "binding"
    /\ call' = pub_key_binding(call, cert)
    /\ UNCHANGED Rest

Next ==
    \/ Tick
    \/ ExtractExtension
    \/ LoadSigningCert
    \/ AddTrustAnchor
    \/ ReadTime
    \/ VerifyCertChain
    \/ VerifySignature
    \/ ParseReport
    \/ Freshness
    \/ QuoteStatus
    \/ QuoteBody
    \/ PubKeyBinding

Spec == Init /\ [][Next]_vars

(***************************************************************************)
(* Claims about from_cert.                                                 *)
(***************************************************************************)
Ran(step) == \E i \in 1..Len(call.trace) : call.trace[i] = step

\* The step ran and did not end the call.
Passed(step) ==
    \E i \in 1..Len(call.trace) :
        /\ call.trace[i] = step
        /\ (i < Len(call.trace) \/ call.pc # "done" \/ call.result.ok)

\* Freshness got as far as reading SystemTime::now().
NowRead ==
    /\ Ran("Freshness")
    /\ cert.timestamp.kind = "str"
    /\ cert.timestamp.well_formed

\* The key the certificate must carry for the decoded quote.
BoundKey == <<4>> \o call.sgx_quote_body.isv_enclave_report.report_data

\* C1: the call succeeds only if the subject public key is 0x04 followed by
\* exactly the decoded report_data, and for every other key the binding step
\* fails with ReportError.
C1_KeyBinding ==
    call.pc = "done" =>
        /\ call.result.ok => (Ran("PubKeyBinding") /\ cert.pub_k = BoundKey)
        /\ (Ran("PubKeyBinding") /\ cert.pub_k # BoundKey)
               => call.result = Err(ReportError)

\* C4: the status the call keeps is one of the four variants; "OK",
\* "GROUP_OUT_OF_DATE" and "CONFIGURATION_NEEDED" give OK, GroupOutOfDate and
\* ConfigurationNeeded, nothing else gives them, and every other string gives
\* UnknownBadStatus.
C4_StatusMapping ==
    Passed("QuoteStatus") =>
        LET s == cert.isvEnclaveQuoteStatus.s
            v == call.sgx_quote_status
        IN  /\ v \in {"OK", "GroupOutOfDate", "ConfigurationNeeded", "UnknownBadStatus"}
            /\ v = "OK" <=> s = "OK"
            /\ v = "GroupOutOfDate" <=> s = "GROUP_OUT_OF_DATE"
            /\ v = "ConfigurationNeeded" <=> s = "CONFIGURATION_NEEDED"
            /\ v = "UnknownBadStatus"
                 <=> s \notin {"OK", "GROUP_OUT_OF_DATE", "CONFIGURATION_NEEDED"}

\* C4 witness: a status spelled in lower case was mapped to UnknownBadStatus.
C4_Witness ==
    /\ Passed("QuoteStatus")
    /\ cert.isvEnclaveQuoteStatus.s = "ok"
    /\ call.sgx_quote_status = "UnknownBadStatus"

StatusStrings ==
    {"OK", "GROUP_OUT_OF_DATE", "CONFIGURATION_NEEDED", "ok", "", "SIGNATURE_INVALID"}

\* C5: with the rest of the certificate, the root and the two clock readings
\* fixed, the call ends the same way whatever string isvEnclaveQuoteStatus
\* holds: the same failure, or success with the same freshness and quote
\* body and the status the string maps to.
C5_StatusIndependence ==
    (call.pc = "done" /\ cert.isvEnclaveQuoteStatus.kind = "str") =>
        \A s \in StatusStrings :
            LET t299 == IF Ran("ReadTime") THEN call.system_time ELSE clock
                t327 == IF NowRead THEN call.now ELSE clock
                other == from_cert([cert EXCEPT !.isvEnclaveQuoteStatus = Str(s)],
                                   ias_report_ca_cert, t299, t327).result
            IN  /\ other.ok = call.result.ok
                /\ ~call.result.ok => other = call.result
                /\ call.result.ok =>
                     /\ other.val.freshness = call.result.val.freshness
                     /\ other.val.sgx_quote_body = call.result.val.sgx_quote_body
                     /\ other.val.sgx_quote_status = SgxQuoteStatus_from(s)

\* C5 witness: a call whose report says GROUP_OUT_OF_DATE succeeded and
\* returned GroupOutOfDate.
C5_Witness ==
    /\ call.pc = "done" /\ call.result.ok
    /\ cert.isvEnclaveQuoteStatus = Str("GROUP_OUT_OF_DATE")
    /\ call.result.val.sgx_quote_status = "GroupOutOfDate"

\* Seconds the clock is advanced by in C6.
MaxAdvance == 2

\* C6: a returned freshness is the whole seconds from the report's timestamp
\* to the current instant and is not negative, an instant D seconds later
\* gives D seconds more, and a timestamp later than the current instant makes
\* the call fail (with whatever error: the claim names ReportError).
C6_Freshness ==
    NowRead =>
        LET ts == cert.timestamp.naive
            now == call.now
        IN  /\ ts > now => (call.pc = "done" /\ ~call.result.ok)
            /\ (call.pc = "done" /\ call.result.ok) =>
                 LET f == call.result.val.freshness.secs
                 IN  /\ f >= 0
                     /\ f = (now - ts) \div TicksPerSec
                     /\ \A D \in 0..MaxAdvance :
                          LET later == from_cert(cert, ias_report_ca_cert,
                                                 call.system_time,
                                                 now + D * TicksPerSec).result
                          IN  later.ok /\ later.val.freshness.secs = f + D

\* C7: the instant the signing certificate's validity is checked at and the
\* instant freshness is computed from are the same instant.
C7_OneInstant == NowRead => call.system_time = call.now

StepOrder ==
    <<"ExtractExtension", "LoadSigningCert", "AddTrustAnchor", "ReadTime",
      "VerifyCertChain", "VerifySignature", "ParseReport", "Freshness",
      "QuoteStatus", "QuoteBody", "PubKeyBinding">>

\* What each step requires of the arguments and of the clock readings (for
\* Freshness: a timestamp less than a second ahead of the clock passes, see C6).
Accepts(step) ==
    CASE step = "ExtractExtension" -> cert.x509_ok /\ cert.payload_ok
      [] step = "LoadSigningCert"  -> cert.signing_cert_ok
      [] step = "AddTrustAnchor"   -> ias_report_ca_cert.der_ok
      [] step = "ReadTime"         -> call.system_time >= 0
      [] step = "VerifyCertChain"  ->
            /\ cert.issuer = ias_report_ca_cert.subject
            /\ cert.not_before <= call.time /\ call.time <= cert.not_after
      [] step = "VerifySignature"  -> cert.signature_ok
      [] step = "ParseReport"      -> cert.report_json_ok
      [] step = "Freshness"        ->
            /\ cert.timestamp.kind = "str"
            /\ cert.timestamp.well_formed
            /\ call.now - cert.timestamp.naive > -TicksPerSec
      [] step = "QuoteStatus"      -> cert.isvEnclaveQuoteStatus.kind = "str"
      [] step = "QuoteBody"        ->
            /\ cert.isvEnclaveQuoteBody.kind = "str"
            /\ base64_decode(cert.isvEnclaveQuoteBody.s).ok
            /\ SgxQuote_parse_from(base64_decode(cert.isvEnclaveQuoteBody.s).val).ok
      [] step = "PubKeyBinding"    -> cert.pub_k = BoundKey

\* C8: the steps run in the order of StepOrder, none skipped; every step
\* before the last one run was passed; the call ends exactly at the first
\* step that is not passed, without a report; and a report is returned only
\* when all the steps have run and passed.
C8_FailClosedOrdered ==
    LET n == Len(call.trace)
    IN  /\ n <= Len(StepOrder)
        /\ call.trace = SubSeq(StepOrder, 1, n)
        /\ \A i \in 1..n : (i < n \/ call.pc # "done") => Accepts(StepOrder[i])
        /\ call.pc # "done" => call.result = Unset
        /\ call.pc = "done" =>
             /\ n >= 1
             /\ call.result.ok <=> (n = Len(StepOrder) /\ Accepts(StepOrder[n]))
             /\ ~call.result.ok => ~Accepts(StepOrder[n])

\* C8 witness: the call ended at the signature check of a report that the
\* JSON parser would have rejected next.
C8_Witness ==
    /\ call.pc = "done" /\ ~call.result.ok
    /\ call.trace = SubSeq(StepOrder, 1, 6)
    /\ ~cert.signature_ok /\ ~cert.report_json_ok

=============================================================================
